---- MODULE Spec2Model ----
(* The catalog store of api_bot/core/discovery_bot.py (ComprehensiveAPIBot) and the  *)
(* HTTP search boundary of api_bot/web/app.py, as a state machine over one SQLite     *)
(* connection: the committed database file, the connection's view of it (with the    *)
(* writes of an open transaction), and one action per public operation.              *)
(* Beside it, each under a specification of its own: the key manager of              *)
(* api_bot/core/key_manager.py, the pure helpers _norm_host and _hashing_embed, the   *)
(* retry wrapper safe_request of apibotpi/call.py, and the registry of apibotpi with  *)
(* its installer and its call command.                                                *)
EXTENDS Integers, Sequences, FiniteSets, TLC

VARIABLES
  fts_available,      \* self._fts_available: does the SQLite build have FTS5
  disk,               \* the committed database: what a reader of the file observes
  db,                 \* the database as self.con sees it (disk plus uncommitted writes)
  in_transaction,     \* self.con.in_transaction
  last_insert_rowid,  \* sqlite3_last_insert_rowid() of self.con; cur.lastrowid reads it
  now,                \* the wall clock, in seconds
  last,               \* the most recent call: operation, argument and outcome
  prev_ingest,        \* the payload of the ingest call before the most recent one
  keys,               \* SecureAPIKeyManager: its storage file, its _data, its last call
  registry,           \* apibotpi: the registry file apis.json and the last command run
  call,               \* the most recent application of a pure helper: argument and value
  retry               \* one call of a safe_request wrapper: its position and outcome

vars == <<fts_available, disk, db, in_transaction, last_insert_rowid, now, last, prev_ingest,
          keys, registry, call, retry>>

\* the catalog store and its ghosts; the components outside it
bot_vars == <<fts_available, disk, db, in_transaction, last_insert_rowid, now, last,
              prev_ingest>>

-----------------------------------------------------------------------------
(* Values. A text is a sequence of one-character strings. An optional value is <<>>   *)
(* (Python None, SQL NULL) or <<v>>.                                                  *)

None == <<>>
Some(v) == <<v>>

\* Python truthiness of an optional text: None and "" are falsy.
Truthy(o) == o # None /\ o[1] # <<>>

\* Python's `a or b` on optional texts.
Or(a, b) == IF Truthy(a) THEN a ELSE b

LowerLetters == <<"a","b","c","d","e","f","g","h","i","j","k","l","m",
                  "n","o","p","q","r","s","t","u","v","w","x","y","z">>
UpperLetters == <<"A","B","C","D","E","F","G","H","I","J","K","L","M",
                  "N","O","P","Q","R","S","T","U","V","W","X","Y","Z">>
Digits == {"0","1","2","3","4","5","6","7","8","9"}
Whitespace == {" ", "\t", "\n"}

IsLower(c) == \E i \in 1..26 : LowerLetters[i] = c
IsUpper(c) == \E i \in 1..26 : UpperLetters[i] = c
LowerChar(c) == IF IsUpper(c) THEN LowerLetters[CHOOSE i \in 1..26 : UpperLetters[i] = c] ELSE c
UpperChar(c) == IF IsLower(c) THEN UpperLetters[CHOOSE i \in 1..26 : LowerLetters[i] = c] ELSE c

\* str.lower(), str.upper()
Lower(s) == [i \in 1..Len(s) |-> LowerChar(s[i])]
Upper(s) == [i \in 1..Len(s) |-> UpperChar(s[i])]

\* str.strip(): leading and trailing whitespace removed
RECURSIVE LStrip(_)
LStrip(s) == IF s # <<>> /\ Head(s) \in Whitespace THEN LStrip(Tail(s)) ELSE s
RECURSIVE RStrip(_)
RStrip(s) == IF s # <<>> /\ s[Len(s)] \in Whitespace THEN RStrip(SubSeq(s, 1, Len(s) - 1)) ELSE s
Strip(s) == RStrip(LStrip(s))

\* does text s start with text p; does it contain p
StartsWith(s, p) == Len(p) <= Len(s) /\ SubSeq(s, 1, Len(p)) = p
Contains(s, p) == \E i \in 1..(Len(s) - Len(p) + 1) : SubSeq(s, i, i + Len(p) - 1) = p

Max(a, b) == IF a >= b THEN a ELSE b
MaxOf(S) == IF S = {} THEN 0 ELSE CHOOSE m \in S : \A x \in S : x <= m

\* the texts of the model: literals of the code, and the names, hosts, urls, queries and
\* descriptions of the inputs
T ==
  [Unknown |-> <<"U","n","k","n","o","w","n">>,
   unknown |-> <<"u","n","k","n","o","w","n">>,
   none |-> <<"n","o","n","e">>,
   GET |-> <<"G","E","T">>,
   Slash |-> <<"/">>,
   uncategorized |-> <<"u","n","c","a","t","e","g","o","r","i","z","e","d">>,
   Sky |-> <<"S","k","y">>,
   Sea |-> <<"S","e","a">>,
   h |-> <<"h">>,
   H |-> <<"H">>,
   url |-> <<"h","t","t","p","s",":","/","/","h","/","p">>,
   skymap |-> <<"s","k","y"," ","m","a","p">>,
   seadata |-> <<"s","e","a"," ","d","a","t","a">>,
   apiKey |-> <<"a","p","i","K","e","y">>,
   up |-> <<"u","p">>,
   seed |-> <<"s","e","e","d">>,
   get |-> <<"g","e","t">>,
   x |-> <<"/","x">>,
   sky |-> <<"s","k","y">>,
   zzz |-> <<" ","z","z","z"," ">>,
   blank |-> <<" ">>,
   skies |-> <<"s","k","y"," ","s","k","y"," ","s","k","y"," ","s","k","y"," ","m","a","p">>,
   MAP |-> <<"M","A","P">>,
   data |-> <<"d","a","t","a">>,
   s_y |-> <<"s","_","y">>,
   a |-> <<"/","a">>,
   DELETE |-> <<"D","E","L","E","T","E">>,
   POST |-> <<"P","O","S","T">>,
   ftp |-> <<"f","t","p",":","/","/">>,
   p |-> <<"/","p">>,
   k |-> <<"k">>,
   bang |-> <<"!">>,
   https |-> <<"h","t","t","p","s">>,
   http |-> <<"h","t","t","p">>,
   A |-> <<"A">>,
   lower_a |-> <<"a">>,
   pad_a |-> <<" ","a">>,
   b |-> <<"b">>,
   B |-> <<"B">>,
   c |-> <<"c">>,
   http_url |-> <<"h","t","t","p",":","/","/","h">>,
   HTTPS_url |-> <<"H","T","T","P","S",":","/","/","h">>,
   scheme_sep |-> <<":", "/", "/">>,
   http_scheme |-> <<"h","t","t","p",":","/","/">>,
   https_scheme |-> <<"h","t","t","p","s",":","/","/">>]

-----------------------------------------------------------------------------
(* Pure helpers of discovery_bot.py.                                                  *)


\* re.sub(r"^https?://", "", s): one leading http:// or https:// removed (case-sensitive)
StripScheme(s) ==
  IF StartsWith(s, T.https_scheme) THEN SubSeq(s, Len(T.https_scheme) + 1, Len(s))
  ELSE IF StartsWith(s, T.http_scheme) THEN SubSeq(s, Len(T.http_scheme) + 1, Len(s))
  ELSE s

\* s.split("/")[0]: the part before the first slash
RECURSIVE BeforeSlash(_)
BeforeSlash(s) == IF s = <<>> \/ Head(s) = "/" THEN <<>> ELSE <<Head(s)>> \o BeforeSlash(Tail(s))

\* _norm_host: None for a falsy value, else the stripped text lowercased, with the
\* scheme and the path cut off when the text holds "://"
norm_host(host_or_url) ==
  IF ~Truthy(host_or_url) THEN None
  ELSE LET s == Strip(host_or_url[1])
       IN IF Contains(s, T.scheme_sep) THEN Some(Lower(BeforeSlash(StripScheme(s))))
          ELSE Some(Lower(s))

IsTokenChar(c) == IsLower(c) \/ c \in Digits

\* re.findall(r"[a-z0-9]+", s): the maximal runs of token characters, in order
RECURSIVE FindTokens(_, _)
FindTokens(s, cur) ==
  IF s = <<>> THEN (IF cur = <<>> THEN <<>> ELSE <<cur>>)
  ELSE IF IsTokenChar(Head(s)) THEN FindTokens(Tail(s), Append(cur, Head(s)))
  ELSE (IF cur = <<>> THEN <<>> ELSE <<cur>>) \o FindTokens(Tail(s), <<>>)

\* the embedding dimension of _upsert_embedding and _hashing_embed
Dim == 256

\* int(md5(tok).hexdigest(), 16) % 256 for the tokens of the model's texts
Bucket(tok) ==
  CASE tok = <<"s","k","y">> -> 243
    [] tok = <<"s","e","a">> -> 0
    [] tok = <<"m","a","p">> -> 174
    [] tok = <<"d","a","t","a">> -> 220
    [] tok = <<"z","z","z">> -> 96
    [] tok = <<"u","n","k","n","o","w","n">> -> 74
    [] tok = <<"s">> -> 52
    [] tok = <<"y">> -> 93
    [] tok = <<"k">> -> 243

RECURSIVE SumSq(_, _)
SumSq(f, S) == IF S = {} THEN 0
               ELSE LET b == CHOOSE x \in S : TRUE IN f[b] * f[b] + SumSq(f, S \ {b})

\* as _hashing_embed, but with the counts returned undivided
hashing_embed_unnormalised(text) ==
  LET tokens == FindTokens(Lower(text), <<>>)
      hit == {Bucket(tokens[i]) : i \in 1..Len(tokens)}
  IN [cnt |-> [b \in hit |-> Cardinality({i \in 1..Len(tokens) : Bucket(tokens[i]) = b})],
      norm2 |-> 1]

\* _hashing_embed: the vector v with v[b] = cnt[b] / sqrt(norm2) on the buckets cnt
\* names and 0 elsewhere; cnt[b] is the number of tokens hashed to bucket b and norm2
\* the sum of the squared counts (1 when there is no token, where the code returns
\* the zero vector undivided)
hashing_embed(text) ==
  LET tokens == FindTokens(Lower(text), <<>>)
      hit == {Bucket(tokens[i]) : i \in 1..Len(tokens)}
      cnt == [b \in hit |-> Cardinality({i \in 1..Len(tokens) : Bucket(tokens[i]) = b})]
  IN IF tokens = <<>> THEN [cnt |-> <<>>, norm2 |-> 1]
     ELSE [cnt |-> cnt, norm2 |-> SumSq(cnt, hit)]

\* equality of two embeddings as vectors of reals:
\* c1[b]/sqrt(n1) = c2[b]/sqrt(n2) in every bucket
SameVector(v, w) ==
  /\ DOMAIN v.cnt = DOMAIN w.cnt
  /\ \A b \in DOMAIN v.cnt : v.cnt[b] * v.cnt[b] * w.norm2 = w.cnt[b] * w.cnt[b] * v.norm2

-----------------------------------------------------------------------------
(* The store: the four tables of setup_database, and the sqlite3 connection.          *)

\* the schema of setup_database on a new file: every table empty
EmptyDb ==
  [apis |-> {}, endpoints |-> {}, embeddings |-> {}, search_log |-> <<>>,
   apis_fts |-> {}, sqlite_sequence |-> [apis |-> 0, endpoints |-> 0]]

\* a connection with the file: s.disk is committed, s.db is the connection's view
Conn == [disk |-> disk, db |-> db, in_transaction |-> in_transaction,
         last_insert_rowid |-> last_insert_rowid]

\* sqlite3 opens a transaction before an INSERT when none is open
Begin(s) == [s EXCEPT !.in_transaction = TRUE]

\* self.con.commit(): every pending write of the connection reaches the file
Commit(s) == [s EXCEPT !.disk = s.db, !.in_transaction = FALSE]

\* the outcome of a call: the connection after it, the value returned (None when it
\* raised), and the exception raised ("" when it returned)
Returned(s, v) == [s |-> s, ret |-> Some(v), raised |-> ""]
Raised(s, e) == [s |-> s, ret |-> None, raised |-> e]


\* the number of ? placeholders of the INSERT ... ON CONFLICT statement of _upsert_api:
\* twelve in VALUES(...) and one in updated_at=?
UpsertPlaceholders == 13

\* as UpsertParams, with the timestamp supplied for updated_at=? as well
UpsertParamsForEveryPlaceholder(api, t) ==
  << Or(api.name, Some(T.Unknown)),
     norm_host(Or(Or(Or(api.host, api.base_url), api.baseUrl), Some(T.unknown))),
     Or(api.base_url, api.baseUrl),
     api.description,
     api.category,
     Or(api.docs_url, api.docsUrl),
     Or(api.openapi_url, api.openapiUrl),
     Or(Or(api.auth, api.auth_type), Some(T.none)),
     Or(api.rate_limit, api.rateLimit),
     Or(api.status, Some(T.unknown)),
     api.source,
     Some(t),
     Some(t) >>

\* the parameter tuple _upsert_api passes to that statement
UpsertParams(api, t) ==
  << Or(api.name, Some(T.Unknown)),
     norm_host(Or(Or(Or(api.host, api.base_url), api.baseUrl), Some(T.unknown))),
     Or(api.base_url, api.baseUrl),
     api.description,
     api.category,
     Or(api.docs_url, api.docsUrl),
     Or(api.openapi_url, api.openapiUrl),
     Or(Or(api.auth, api.auth_type), Some(T.none)),
     Or(api.rate_limit, api.rateLimit),
     Or(api.status, Some(T.unknown)),
     api.source,
     Some(t) >>

\* COALESCE(x, y)
Coalesce(x, y) == IF x # None THEN x ELSE y

\* the row of apis with this (name, host), as a set of zero or one rows: UNIQUE(name, host)
ApiRows(d, name, host) == {r \in d.apis : r.name = name /\ r.host = host}

\* INSERT INTO apis ... ON CONFLICT(name, host) DO UPDATE SET ..., with its parameters
\* bound: a new row with the next AUTOINCREMENT id, which becomes last_insert_rowid;
\* or, when (name, host) is taken, that row updated, last_insert_rowid left alone.
\* Either way the id is drawn, and sqlite_sequence keeps it.
ExecUpsertApi(s, p) ==
  LET d == s.db
      name == p[1][1]
      host == p[2][1]
      old == ApiRows(d, name, host)
      id == Max(d.sqlite_sequence.apis, MaxOf({r.id : r \in d.apis})) + 1
      seq == [d.sqlite_sequence EXCEPT !.apis = id]
      inserted == [id |-> id, name |-> name, host |-> host, base_url |-> p[3],
                   description |-> p[4], category |-> p[5], docs_url |-> p[6],
                   openapi_url |-> p[7], auth |-> p[8], rate_limit |-> p[9],
                   status |-> p[10], source |-> p[11], created_at |-> p[12],
                   updated_at |-> p[12]]
      updated(r) == [r EXCEPT !.base_url = p[3],
                              !.description = Coalesce(p[4], r.description),
                              !.category = Coalesce(p[5], r.category),
                              !.docs_url = Coalesce(p[6], r.docs_url),
                              !.openapi_url = Coalesce(p[7], r.openapi_url),
                              !.auth = Coalesce(p[8], r.auth),
                              !.rate_limit = Coalesce(p[9], r.rate_limit),
                              !.status = Coalesce(p[10], r.status),
                              !.source = Coalesce(p[11], r.source),
                              !.updated_at = p[13]]
  IN IF old = {}
     THEN [s EXCEPT !.db = [d EXCEPT !.apis = @ \cup {inserted}, !.sqlite_sequence = seq],
                    !.last_insert_rowid = id]
     ELSE [s EXCEPT !.db = [d EXCEPT !.apis = (@ \ old) \cup {updated(r) : r \in old},
                                     !.sqlite_sequence = seq]]

\* _upsert_embedding: the embedding of name + "\n" + description written under api_id
\* (INSERT ... ON CONFLICT(api_id) DO UPDATE; api_id is the rowid of embeddings, so an
\* insert sets last_insert_rowid to it), then committed
upsert_embedding(s, api_id, name, description) ==
  LET text == name \o <<"\n">> \o description
      row == [api_id |-> api_id, dim |-> Dim, vector |-> hashing_embed(text)]
      old == {e \in s.db.embeddings : e.api_id = api_id}
      s1 == Begin(s)
      s2 == [s1 EXCEPT !.db.embeddings = (@ \ old) \cup {row},
                       !.last_insert_rowid = IF old = {} THEN api_id ELSE @]
  IN Commit(s2)

\* the row _upsert_endpoints builds from one endpoint of the payload
EndpointParams(api_id, ep) ==
  [api_id |-> api_id, method |-> Upper(Or(ep.method, Some(T.GET))[1]),
   path |-> Or(ep.path, Some(T.Slash))[1], description |-> ep.description]

\* INSERT INTO endpoints ... ON CONFLICT(api_id, method, path) DO UPDATE SET description,
\* once per row in order (executemany)
RECURSIVE ExecUpsertEndpoints(_, _)
ExecUpsertEndpoints(s, rows) ==
  IF rows = <<>> THEN s
  ELSE LET d == s.db
           r == Head(rows)
           old == {e \in d.endpoints :
                     e.api_id = r.api_id /\ e.method = r.method /\ e.path = r.path}
           id == Max(d.sqlite_sequence.endpoints, MaxOf({e.id : e \in d.endpoints})) + 1
           seq == [d.sqlite_sequence EXCEPT !.endpoints = id]
           inserted == [id |-> id, api_id |-> r.api_id, method |-> r.method,
                        path |-> r.path, description |-> r.description]
           s1 == IF old = {}
                 THEN [s EXCEPT !.db = [d EXCEPT !.endpoints = @ \cup {inserted},
                                                 !.sqlite_sequence = seq],
                                !.last_insert_rowid = id]
                 ELSE [s EXCEPT !.db = [d EXCEPT
                          !.endpoints = (@ \ old) \cup
                              {[e EXCEPT !.description = r.description] : e \in old},
                          !.sqlite_sequence = seq]]
       IN ExecUpsertEndpoints(s1, Tail(rows))

\* _upsert_endpoints: every endpoint of the list upserted under api_id, then committed
upsert_endpoints(s, api_id, endpoints) ==
  LET rows == [i \in 1..Len(endpoints) |-> EndpointParams(api_id, endpoints[i])]
  IN Commit(ExecUpsertEndpoints(Begin(s), rows))

\* _upsert_api, at time t. The statement is prepared with UpsertPlaceholders
\* placeholders; sqlite3 raises ProgrammingError, inside the transaction it has just
\* opened and before any row is written, unless as many parameters are supplied.
\* Past that: api_id is cur.lastrowid (the id selected by name and host only when
\* lastrowid is 0); with FTS5 the upsert into the virtual table apis_fts is refused by
\* SQLite (OperationalError: UPSERT not implemented for virtual table), which leaves the
\* transaction open; else the embedding, a commit, and the endpoints.
upsert_api(s, api, t) ==
  LET p == UpsertParams(api, t)
      s1 == Begin(s)
  IN IF Len(p) # UpsertPlaceholders THEN Raised(s1, "ProgrammingError")
     ELSE LET s2 == ExecUpsertApi(s1, p)
              name == p[1][1]
              lastrowid == s2.last_insert_rowid
              api_id == IF lastrowid = 0
                        THEN (CHOOSE r \in ApiRows(s2.db, name, p[2][1]) : TRUE).id
                        ELSE lastrowid
          IN IF fts_available THEN Raised(s2, "OperationalError")
             ELSE LET s3 == upsert_embedding(s2, api_id, name, Or(api.description, Some(<<>>))[1])
                      s4 == Commit(s3)
                      s5 == IF api.endpoints # <<>>
                            THEN upsert_endpoints(s4, api_id, api.endpoints)
                            ELSE s4
                  IN Returned(s5, api_id)

\* as setup_database, but with the search log created anew on every call
setup_database_recreating_log(s) ==
  LET c == Commit(s)
      d == [c.db EXCEPT !.search_log = <<>>]
  IN [c EXCEPT !.db = d, !.disk = d]

\* setup_database: executescript commits what is pending and runs the four
\* CREATE TABLE IF NOT EXISTS; with FTS5, CREATE VIRTUAL TABLE IF NOT EXISTS apis_fts and,
\* when its count (the count of its content table apis) is 0, the index filled from the
\* rows of apis; then commit
setup_database(s) ==
  LET c == Commit(s)
      filled == [c.db EXCEPT !.apis_fts =
                   {[rowid |-> r.id, name |-> r.name, description |-> r.description,
                     category |-> r.category] : r \in c.db.apis}]
  IN IF fts_available /\ Cardinality(c.db.apis) = 0
     THEN Commit([c EXCEPT !.db = filled])
     ELSE c

-----------------------------------------------------------------------------
(* Search.                                                                            *)

\* a set of integers as the ascending sequence: a scan in rowid order
RECURSIVE Ascending(_)
Ascending(S) == IF S = {} THEN <<>>
                ELSE LET m == CHOOSE x \in S : \A y \in S : x <= y
                     IN <<m>> \o Ascending(S \ {m})

Take(q, n) == SubSeq(q, 1, IF Len(q) < n THEN Len(q) ELSE n)

\* the row of apis with this id
ApiById(d, id) == CHOOSE r \in d.apis : r.id = id

\* _row_to_api: the fields of a row a search hit carries
row_to_api(r) ==
  [id |-> r.id, name |-> r.name, host |-> r.host, base_url |-> r.base_url,
   description |-> r.description, category |-> r.category, documentation |-> r.docs_url,
   docs_url |-> r.docs_url, openapi_url |-> r.openapi_url, auth |-> r.auth,
   rate_limit |-> r.rate_limit, status |-> r.status, source |-> r.source]

\* the LIMIT and the threshold (1/5) comprehensive_search passes to the two lookups
SearchLimit == 25
ThresholdNum == 1
ThresholdDen == 5

\* x LIKE p for texts: % in the pattern matches any run of characters, _ any one
\* character, every other character itself without regard to (ASCII) case
RECURSIVE LikeMatch(_, _)
LikeMatch(p, x) ==
  IF p = <<>> THEN x = <<>>
  ELSE IF Head(p) = "%" THEN LikeMatch(Tail(p), x) \/ (x # <<>> /\ LikeMatch(p, Tail(x)))
  ELSE /\ x # <<>>
       /\ (Head(p) = "_" \/ LowerChar(Head(p)) = LowerChar(Head(x)))
       /\ LikeMatch(Tail(p), Tail(x))

\* x LIKE '%query%' for an optional text x, the query pasted into the pattern as it is;
\* NULL matches nothing
Like(x, query) == x # None /\ LikeMatch(<<"%">> \o query \o <<"%">>, x[1])

\* an FTS5 MATCH expression made of letters, digits and whitespace parses unless it
\* holds no term at all
Fts5QueryOk(query) == \E i \in 1..Len(query) : query[i] \notin Whitespace

\* the terms FTS5 indexes or looks up: runs of letters and digits, case folded
Fts5Terms(x) == IF x = None THEN {}
                ELSE LET toks == FindTokens(Lower(x[1]), <<>>)
                     IN {toks[i] : i \in 1..Len(toks)}

\* apis_fts MATCH query: the indexed rows that hold every term of the query
Fts5Match(d, query) ==
  {f.rowid : f \in {g \in d.apis_fts :
      Fts5Terms(Some(query)) \subseteq
        (Fts5Terms(Some(g.name)) \cup Fts5Terms(g.description) \cup Fts5Terms(g.category))}}

\* _text_search: with FTS5 the rows of apis joined to the matching rows of apis_fts
\* (OperationalError for an expression FTS5 cannot parse), else the rows whose name,
\* description or category is LIKE the query; at most limit rows, in rowid order
text_search(s, query, limit) ==
  LET d == s.db
      ids == IF fts_available
             THEN {r.id : r \in d.apis} \cap Fts5Match(d, query)
             ELSE {r.id : r \in {a \in d.apis :
                      \/ Like(Some(a.name), query)
                      \/ Like(a.description, query)
                      \/ Like(a.category, query)}}
      rows == Take(Ascending(ids), limit)
  IN IF fts_available /\ ~Fts5QueryOk(query) THEN Raised(s, "OperationalError")
     ELSE Returned(s, [i \in 1..Len(rows) |-> row_to_api(ApiById(d, rows[i]))])

\* sum of qv[i] * vec[i], times sqrt(qv.norm2 * vec.norm2): the dot product of the counts
RECURSIVE DotCounts(_, _, _)
DotCounts(q, v, S) ==
  IF S = {} THEN 0
  ELSE LET b == CHOOSE x \in S : TRUE
       IN q[b] * v[b] + DotCounts(q, v, S \ {b})
Dot(qv, vec) == DotCounts(qv.cnt, vec.cnt, DOMAIN qv.cnt \cap DOMAIN vec.cnt)

\* score(x) >= score(y) and score(x) > score(y) for two rows scored against one query:
\* score = dot / sqrt(qnorm2 * norm2), dot >= 0
ScoreGeq(x, y) == x.dot * x.dot * y.norm2 >= y.dot * y.dot * x.norm2
ScoreGt(x, y) == x.dot * x.dot * y.norm2 > y.dot * y.dot * x.norm2

\* list.sort(key=score, reverse=True): descending, equal scores in their given order
RECURSIVE InsertByScore(_, _)
InsertByScore(sorted, x) ==
  IF sorted = <<>> THEN <<x>>
  ELSE IF ScoreGt(x, Head(sorted)) THEN <<x>> \o sorted
  ELSE <<Head(sorted)>> \o InsertByScore(Tail(sorted), x)
RECURSIVE SortByScore(_, _)
SortByScore(scored, acc) ==
  IF scored = <<>> THEN acc ELSE SortByScore(Tail(scored), InsertByScore(acc, Head(scored)))

\* as semantic_search, without the sort: the rows at or above the threshold in the order
\* of the scan
semantic_search_unsorted(s, query, limit) ==
  LET d == s.db
      qv == hashing_embed(query)
      ids == Ascending({e.api_id : e \in d.embeddings} \cap {r.id : r \in d.apis})
      emb(id) == (CHOOSE e \in d.embeddings : e.api_id = id).vector
      all == [i \in 1..Len(ids) |->
                [id |-> ids[i], dot |-> Dot(qv, emb(ids[i])), norm2 |-> emb(ids[i]).norm2]]
      keep == SelectSeq(all, LAMBDA x :
                x.dot * x.dot * ThresholdDen * ThresholdDen
                  >= ThresholdNum * ThresholdNum * qv.norm2 * x.norm2)
      top == Take(keep, limit)
  IN [i \in 1..Len(top) |-> row_to_api(ApiById(d, top[i].id))]

\* _semantic_search: the rows of embeddings joined to apis, scored by the dot product
\* with the query's embedding; those at or above the threshold, by descending score,
\* at most limit
semantic_search(s, query, limit) ==
  LET d == s.db
      qv == hashing_embed(query)
      ids == Ascending({e.api_id : e \in d.embeddings} \cap {r.id : r \in d.apis})
      emb(id) == (CHOOSE e \in d.embeddings : e.api_id = id).vector
      all == [i \in 1..Len(ids) |->
                [id |-> ids[i], dot |-> Dot(qv, emb(ids[i])), norm2 |-> emb(ids[i]).norm2]]
      keep == SelectSeq(all, LAMBDA x :
                x.dot * x.dot * ThresholdDen * ThresholdDen
                  >= ThresholdNum * ThresholdNum * qv.norm2 * x.norm2)
      top == Take(SortByScore(keep, <<>>), limit)
  IN [i \in 1..Len(top) |-> row_to_api(ApiById(d, top[i].id))]

NoHits == [text |-> <<>>, semantic |-> <<>>]

\* as comprehensive_search, but with the lookups first and the query logged only when
\* one of them has a hit
comprehensive_search_logging_hits(s, query, t) ==
  LET text_hits == text_search(s, query, SearchLimit)
      hits == [text |-> text_hits.ret[1],
               semantic |-> semantic_search(s, query, SearchLimit)]
      s1 == Begin(s)
      s2 == [s1 EXCEPT !.db.search_log = Append(@, [ts |-> t, query |-> query]),
                       !.last_insert_rowid = Len(s1.db.search_log) + 1]
  IN IF text_hits.raised # "" THEN Raised(s, text_hits.raised)
     ELSE IF hits = NoHits THEN Returned(s, hits)
     ELSE Returned(Commit(s2), hits)

\* comprehensive_search, at time t: the query logged and committed, then the two lookups
comprehensive_search(s, query, t) ==
  LET s1 == Begin(s)
      rowid == Len(s1.db.search_log) + 1
      s2 == [s1 EXCEPT !.db.search_log = Append(@, [ts |-> t, query |-> query]),
                       !.last_insert_rowid = rowid]
      s3 == Commit(s2)
      text_hits == text_search(s3, query, SearchLimit)
  IN IF text_hits.raised # "" THEN Raised(s3, text_hits.raised)
     ELSE Returned(s3, [text |-> text_hits.ret[1],
                        semantic |-> semantic_search(s3, query, SearchLimit)])

\* the characters of the model's texts in code point order: SQLite's BINARY collation
\* compares two texts byte by byte
CodePointOrder ==
  <<" ", "!", "%", "/", "0", "1", "2", "3", "4", "5", "6", "7", "8", "9", ":">> \o
  UpperLetters \o <<"_">> \o LowerLetters

RECURSIVE TextLess(_, _)
TextLess(a, b) ==
  IF b = <<>> THEN FALSE
  ELSE IF a = <<>> THEN TRUE
  ELSE IF Head(a) = Head(b) THEN TextLess(Tail(a), Tail(b))
  ELSE LET Ord(c) == CHOOSE i \in 1..Len(CodePointOrder) : CodePointOrder[i] = c
       IN Ord(Head(a)) < Ord(Head(b))

\* ORDER BY method, path
EndpointBefore(e, f) ==
  \/ TextLess(e.method, f.method)
  \/ e.method = f.method /\ TextLess(e.path, f.path)

RECURSIVE OrderByMethodPath(_)
OrderByMethodPath(rows) ==
  IF rows = {} THEN <<>>
  ELSE LET first == CHOOSE e \in rows : \A f \in rows \ {e} : EndpointBefore(e, f)
       IN <<first>> \o OrderByMethodPath(rows \ {first})

EndpointDict(e) == [method |-> e.method, path |-> e.path, description |-> e.description]

\* as get_api_endpoints, but without the ORDER BY: the rows in rowid order
get_api_endpoints_unordered(s, api_id) ==
  LET ids == Ascending({e.id : e \in {x \in s.db.endpoints : x.api_id = api_id}})
  IN [i \in 1..Len(ids) |-> EndpointDict(CHOOSE e \in s.db.endpoints : e.id = ids[i])]

\* get_api_endpoints: method, path and description of the rows of endpoints with this
\* api_id, ordered by method, then path (UNIQUE(api_id, method, path): no two rows tie)
get_api_endpoints(s, api_id) ==
  LET rows == OrderByMethodPath({e \in s.db.endpoints : e.api_id = api_id})
  IN [i \in 1..Len(rows) |-> EndpointDict(rows[i])]

-----------------------------------------------------------------------------
(* Statistics and export.                                                             *)


\* the window of searches_last_week, in seconds
Week == 7 * 24 * 3600

\* strftime('%s', ts) >= ? with an integer parameter: strftime yields TEXT, and SQLite
\* orders every TEXT value above every INTEGER when neither side has a column affinity
StrftimeGeq(ts, bound) == TRUE

\* SELECT COALESCE(col, dflt) AS k, COUNT(*) ... GROUP BY k, as the set of <<k, count>>
GroupCount(d, col, dflt) ==
  LET key(r) == Coalesce(r[col], Some(dflt))[1]
  IN {<<k, Cardinality({r \in d.apis : key(r) = k})>> : k \in {key(r) : r \in d.apis}}

\* the LIMIT of the recent_searches query of get_stats
RecentLimit == 5

\* as get_stats, with recent_searches read in insertion order (ORDER BY rowid ASC)
get_stats_oldest_first(s, t) ==
  LET d == s.db
      log == d.search_log
      n == Len(log)
      recent == [i \in 1..(IF n < RecentLimit THEN n ELSE RecentLimit) |-> log[i].query]
  IN [total_apis |-> Cardinality(d.apis),
      by_category |-> GroupCount(d, "category", T.uncategorized),
      by_source |-> GroupCount(d, "source", T.unknown),
      searches_last_week |->
        Cardinality({i \in 1..n : StrftimeGeq(log[i].ts, t - Week)}),
      recent_searches |-> recent]

\* get_stats, at time t
get_stats(s, t) ==
  LET d == s.db
      log == d.search_log
      n == Len(log)
      recent == [i \in 1..(IF n < RecentLimit THEN n ELSE RecentLimit) |-> log[n + 1 - i].query]
  IN [total_apis |-> Cardinality(d.apis),
      by_category |-> GroupCount(d, "category", T.uncategorized),
      by_source |-> GroupCount(d, "source", T.unknown),
      searches_last_week |->
        Cardinality({i \in 1..n : StrftimeGeq(log[i].ts, t - Week)}),
      recent_searches |-> recent]

NoStats == [total_apis |-> 0, by_category |-> {}, by_source |-> {},
            searches_last_week |-> 0, recent_searches |-> <<>>]

\* dump_json: every row of apis, in rowid order, with its endpoints attached
dump_json(s) ==
  LET d == s.db
      ids == Ascending({r.id : r \in d.apis})
      eids(id) == Ascending({e.id : e \in {x \in d.endpoints : x.api_id = id}})
      ep(eid) == LET e == CHOOSE x \in d.endpoints : x.id = eid
                 IN [method |-> e.method, path |-> e.path, description |-> e.description]
  IN [i \in 1..Len(ids) |->
        [api |-> ApiById(d, ids[i]),
         endpoints |-> [j \in 1..Len(eids(ids[i])) |-> ep(eids(ids[i])[j])]]]

-----------------------------------------------------------------------------
(* The HTTP boundary: POST /api/search of web/app.py.                                  *)

\* as RequestQuery, without the strip
RequestQueryUnstripped(body) == Or(body, Some(<<>>))[1]

\* the query api_search reads from the request body: (payload.get("query") or "").strip()
RequestQuery(body) == Strip(Or(body, Some(<<>>))[1])

-----------------------------------------------------------------------------
(* Inputs.                                                                            *)


\* a payload with no key at all
NoFields ==
  [name |-> None, host |-> None, base_url |-> None, baseUrl |-> None,
   description |-> None, category |-> None, docs_url |-> None, docsUrl |-> None,
   openapi_url |-> None, openapiUrl |-> None, auth |-> None, auth_type |-> None,
   rate_limit |-> None, rateLimit |-> None, status |-> None, source |-> None,
   endpoints |-> <<>>]

Ep_get_x == [method |-> Some(T.get), path |-> Some(T.x), description |-> Some(T.skymap)]
Ep_default == [method |-> None, path |-> None, description |-> None]

\* a full record with one endpoint
P_full == [NoFields EXCEPT !.name = Some(T.Sky), !.host = Some(T.h),
             !.base_url = Some(T.url), !.description = Some(T.skymap),
             !.category = Some(T.sky), !.auth = Some(T.apiKey), !.status = Some(T.up),
             !.source = Some(T.seed), !.endpoints = <<Ep_get_x>>]
\* the same (name, host) with the host in capitals, a new description, the rest omitted
P_redescribed == [NoFields EXCEPT !.name = Some(T.Sky), !.host = Some(T.H),
                    !.description = Some(T.seadata)]
\* the same (name, host) with the description present but empty
P_emptydesc == [NoFields EXCEPT !.name = Some(T.Sky), !.host = Some(T.h),
                  !.description = Some(<<>>)]
\* the same (name, host), everything else omitted
P_bare == [NoFields EXCEPT !.name = Some(T.Sky), !.host = Some(T.h)]
\* another record, its host given as a URL, with two endpoints
P_other == [NoFields EXCEPT !.name = Some(T.Sea), !.host = Some(T.url),
              !.description = Some(T.seadata), !.endpoints = <<Ep_get_x, Ep_default>>]

Payloads == {P_full, P_redescribed, P_emptydesc, P_bare, P_other, NoFields}

\* the queries a caller passes to the search: a word, the empty text
Queries == {T.sky, <<>>}

\* the "query" of a request body: absent, empty, blank, or a padded word
Bodies == {None, Some(<<>>), Some(T.blank), Some(T.zzz)}

\* the clock advances by TickStep seconds at a time, MaxTicks times at most; the search
\* log holds MaxLog entries at most
TickStep == 691200
MaxTicks == 1
MaxLog == 2

-----------------------------------------------------------------------------
(* The state machine.                                                                 *)

\* rowid 10 is where creating an FTS5 table writes its structure record: the probe of
\* _check_fts5 leaves it as last_insert_rowid
Fts5ProbeRowid == 10

NoCall ==
  [op |-> "init", api |-> None, query |-> None, body |-> None, raised |-> "",
   status |-> 0, api_id |-> None, hits |-> NoHits, stats |-> NoStats, dump |-> <<>>,
   endpoints |-> <<>>]

\* the components outside the catalog store, before any use of them: no key storage
\* file and no manager, an empty registry, no helper applied, no wrapped call made
NoKeyCall == [op |-> "none", service |-> "", raised |-> "", health |-> None, listed |-> <<>>]
KeysIdle == [file |-> None, data |-> None, last |-> NoKeyCall]
NoRegistryCall == [op |-> "none", record |-> None, name |-> <<>>, raised |-> "",
                   opened |-> FALSE, idx |-> None, printed |-> "", exit |-> 0,
                   requested |-> <<>>]
RegistryIdle == [file |-> <<>>, last |-> NoRegistryCall]
CallIdle == [fn |-> "none", arg |-> None, host |-> <<>>, host_key |-> None,
             vector |-> [cnt |-> <<>>, norm2 |-> 1],
             vector_again |-> [cnt |-> <<>>, norm2 |-> 1]]
RetryIdle == [pc |-> "idle", attempt |-> 0, last_exc |-> None, trace |-> <<>>,
              result |-> None, raised |-> ""]

OthersIdle ==
  /\ keys = KeysIdle
  /\ registry = RegistryIdle
  /\ call = CallIdle
  /\ retry = RetryIdle

\* __init__: the connection opened on a new file, the FTS5 probe, setup_database
Init ==
  /\ OthersIdle
  /\ fts_available \in BOOLEAN
  /\ disk = EmptyDb
  /\ db = EmptyDb
  /\ in_transaction = FALSE
  /\ last_insert_rowid = IF fts_available THEN Fts5ProbeRowid ELSE 0
  /\ now = 0
  /\ last = NoCall
  /\ prev_ingest = None

SetConn(s) ==
  /\ disk' = s.disk
  /\ db' = s.db
  /\ in_transaction' = s.in_transaction
  /\ last_insert_rowid' = s.last_insert_rowid

\* the ghost of the ingest before this call; a call on the bot touches nothing else
Remember ==
  /\ prev_ingest' = IF last.op = "ingest" THEN last.api ELSE prev_ingest
  /\ UNCHANGED <<keys, registry, call, retry>>

\* ingest: _upsert_api(api)
Ingest(api) ==
  /\ LET o == upsert_api(Conn, api, now)
     IN /\ SetConn(o.s)
        /\ last' = [NoCall EXCEPT !.op = "ingest", !.api = Some(api),
                                  !.raised = o.raised, !.api_id = o.ret]
  /\ Remember
  /\ UNCHANGED <<fts_available, now>>

\* search: comprehensive_search(query), on a log of fewer than cap entries
SearchWithin(query, cap) ==
  /\ Len(db.search_log) < cap
  /\ LET o == comprehensive_search(Conn, query, now)
     IN /\ SetConn(o.s)
        /\ last' = [NoCall EXCEPT !.op = "search", !.query = Some(query),
                                  !.raised = o.raised,
                                  !.hits = IF o.raised = "" THEN o.ret[1] ELSE NoHits]
  /\ Remember
  /\ UNCHANGED <<fts_available, now>>

Search(query) == SearchWithin(query, MaxLog)

\* POST /api/search with this "query" in its body: 400 when the stripped query is
\* empty, else the search on the stripped query (500 when it raises)
ApiSearch(body) ==
  LET query == RequestQuery(body)
  IN IF query = <<>>
     THEN /\ last' = [NoCall EXCEPT !.op = "api_search", !.body = body, !.status = 400]
          /\ Remember
          /\ UNCHANGED <<fts_available, disk, db, in_transaction, last_insert_rowid, now>>
     ELSE /\ Len(db.search_log) < MaxLog
          /\ LET o == comprehensive_search(Conn, query, now)
             IN /\ SetConn(o.s)
                /\ last' = [NoCall EXCEPT !.op = "api_search", !.body = body,
                              !.query = Some(query), !.raised = o.raised,
                              !.status = IF o.raised = "" THEN 200 ELSE 500,
                              !.hits = IF o.raised = "" THEN o.ret[1] ELSE NoHits]
          /\ Remember
          /\ UNCHANGED <<fts_available, now>>

\* get_stats()
GetStats ==
  /\ last' = [NoCall EXCEPT !.op = "get_stats", !.stats = get_stats(Conn, now)]
  /\ Remember
  /\ UNCHANGED <<fts_available, disk, db, in_transaction, last_insert_rowid, now>>

\* export: dump_json()
DumpJson ==
  /\ last' = [NoCall EXCEPT !.op = "dump_json", !.dump = dump_json(Conn)]
  /\ Remember
  /\ UNCHANGED <<fts_available, disk, db, in_transaction, last_insert_rowid, now>>

\* setup_database() called again on the constructed bot
SetupDatabase ==
  /\ SetConn(setup_database(Conn))
  /\ last' = [NoCall EXCEPT !.op = "setup_database"]
  /\ Remember
  /\ UNCHANGED <<fts_available, now>>

\* time passes between two calls
Tick ==
  /\ now + TickStep <= MaxTicks * TickStep
  /\ now' = now + TickStep
  /\ last' = [NoCall EXCEPT !.op = "tick"]
  /\ Remember
  /\ UNCHANGED <<fts_available, disk, db, in_transaction, last_insert_rowid>>

Next ==
  \/ \E api \in Payloads : Ingest(api)
  \/ \E query \in Queries : Search(query)
  \/ \E body \in Bodies : ApiSearch(body)
  \/ GetStats
  \/ DumpJson
  \/ SetupDatabase
  \/ Tick

Spec == Init /\ [][Next]_vars

\* searches and statistics only, on a log of up to MaxHistory entries
MaxHistory == 6

SearchHistory(query) == SearchWithin(query, MaxHistory)

HistoryNext ==
  \/ \E query \in Queries : SearchHistory(query)
  \/ GetStats

SpecHistory == Init /\ [][HistoryNext]_vars

-----------------------------------------------------------------------------
(* The bot constructed on a database file that already holds a catalog (db_path names *)
(* a persistent file; setup_database creates only what is missing).                   *)


\* the number of records of the stored catalog
MaxStored == 28

\* the name and description of record i: one record about the sea, one without a
\* description, the others about the sky in three wordings
StoredText(i) ==
  IF i = 1 THEN [name |-> T.Sea, description |-> Some(T.seadata)]
  ELSE IF i = 2 THEN [name |-> T.Sky, description |-> None]
  ELSE IF i % 3 = 0 THEN [name |-> T.Sky, description |-> Some(T.skymap)]
  ELSE IF i % 3 = 1 THEN [name |-> T.Sky, description |-> Some(T.seadata)]
  ELSE [name |-> T.Sky, description |-> Some(T.skies)]

\* row i of apis: its host is i letters long, its category set on the odd rows
StoredApi(i) ==
  [id |-> i, name |-> StoredText(i).name, host |-> [j \in 1..i |-> "h"],
   base_url |-> None, description |-> StoredText(i).description,
   category |-> IF i % 2 = 1 THEN Some(T.sky) ELSE None,
   docs_url |-> None, openapi_url |-> None, auth |-> Some(T.none), rate_limit |-> None,
   status |-> Some(T.unknown), source |-> None, created_at |-> Some(0),
   updated_at |-> Some(0)]

\* the rows of endpoints: four of record 1, inserted in another order than that of
\* their methods and paths, and one of record 2
StoredEndpoints ==
  {[id |-> 1, api_id |-> 1, method |-> T.GET, path |-> T.x, description |-> Some(T.skymap)],
   [id |-> 2, api_id |-> 1, method |-> T.GET, path |-> T.a, description |-> None],
   [id |-> 3, api_id |-> 1, method |-> T.DELETE, path |-> T.x, description |-> None],
   [id |-> 4, api_id |-> 2, method |-> T.POST, path |-> T.x, description |-> None],
   [id |-> 5, api_id |-> 1, method |-> T.GET, path |-> T.Slash, description |-> None]}

\* the file: MaxStored records, each with the embedding of its name and description,
\* five endpoints, no full-text index (setup_database creates apis_fts on such a file and,
\* its count over the content table not being 0, leaves the index empty)
StoredCatalog ==
  [apis |-> {StoredApi(i) : i \in 1..MaxStored},
   endpoints |-> StoredEndpoints,
   embeddings |-> {[api_id |-> i, dim |-> Dim,
                    vector |-> hashing_embed(StoredText(i).name \o <<"\n">> \o
                                Or(StoredText(i).description, Some(<<>>))[1])]
                   : i \in 1..MaxStored},
   search_log |-> <<>>,
   apis_fts |-> {},
   sqlite_sequence |-> [apis |-> MaxStored, endpoints |-> Cardinality(StoredEndpoints)]]

StoredQueries == {T.sky, T.MAP, T.data, T.s_y}

\* __init__ on that file
StoredInit ==
  /\ OthersIdle
  /\ fts_available \in BOOLEAN
  /\ disk = StoredCatalog
  /\ db = StoredCatalog
  /\ in_transaction = FALSE
  /\ last_insert_rowid = IF fts_available THEN Fts5ProbeRowid ELSE 0
  /\ now = 0
  /\ last = NoCall
  /\ prev_ingest = None


\* a record of dump_json()["apis"], as the payload _upsert_api reads from it
ExportedPayload(e) ==
  [NoFields EXCEPT !.name = Some(e.api.name), !.host = Some(e.api.host),
     !.base_url = e.api.base_url, !.description = e.api.description,
     !.category = e.api.category, !.docs_url = e.api.docs_url,
     !.openapi_url = e.api.openapi_url, !.auth = e.api.auth,
     !.rate_limit = e.api.rate_limit, !.status = e.api.status, !.source = e.api.source,
     !.endpoints = [j \in 1..Len(e.endpoints) |->
                      [method |-> Some(e.endpoints[j].method),
                       path |-> Some(e.endpoints[j].path),
                       description |-> e.endpoints[j].description]]]

\* for a in items: _upsert_api(a), up to the first call that raises
RECURSIVE IngestAll(_, _, _)
IngestAll(s, items, t) ==
  IF items = <<>> THEN Returned(s, 0)
  ELSE LET o == upsert_api(s, ExportedPayload(Head(items)), t)
       IN IF o.raised # "" THEN o ELSE IngestAll(o.s, Tail(items), t)

\* the round trip: dump_json(), then every exported record ingested again
ReingestExport ==
  /\ LET exported == dump_json(Conn)
         o == IngestAll(Conn, exported, now)
     IN /\ SetConn(o.s)
        /\ last' = [NoCall EXCEPT !.op = "reingest_export", !.raised = o.raised,
                                  !.dump = exported]
  /\ Remember
  /\ UNCHANGED <<fts_available, now>>


\* get_api_endpoints(api_id)
GetApiEndpoints(api_id) ==
  /\ last' = [NoCall EXCEPT !.op = "get_api_endpoints", !.api_id = Some(api_id),
                            !.endpoints = get_api_endpoints(Conn, api_id)]
  /\ Remember
  /\ UNCHANGED <<fts_available, disk, db, in_transaction, last_insert_rowid, now>>

StoredNext ==
  \/ \E api_id \in {1, 2, 3, MaxStored + 1} : GetApiEndpoints(api_id)
  \/ \E query \in StoredQueries : Search(query)
  \/ GetStats
  \/ ReingestExport
  \/ SetupDatabase

SpecStored == StoredInit /\ [][StoredNext]_vars

-----------------------------------------------------------------------------
(* The key manager of api_bot/core/key_manager.py (SecureAPIKeyManager): a JSON file  *)
(* of records, one per service. A dict is the sequence of its <<key, value>> items,   *)
(* in insertion order; a record is a function of its field names. json.dump and       *)
(* json.load carry such a dict of strings, integers, booleans and None unchanged, so  *)
(* a file written by _save holds the dict itself; a file of any other bytes does not  *)
(* parse.                                                                             *)

DictKeys(d) == {d[i][1] : i \in 1..Len(d)}
DictIndex(d, k) == CHOOSE i \in 1..Len(d) : d[i][1] = k
DictGet(d, k, dflt) == IF k \in DictKeys(d) THEN d[DictIndex(d, k)][2] ELSE dflt
DictSet(d, k, v) == IF k \in DictKeys(d) THEN [d EXCEPT ![DictIndex(d, k)] = <<k, v>>]
                    ELSE Append(d, <<k, v>>)

\* record.get(k, dflt)
Get(record, k, dflt) == IF k \in DOMAIN record THEN record[k] ELSE dflt

\* the content of the storage file is [json |-> TRUE, data |-> the dict it holds], or
\* [json |-> FALSE, ...] for text that is not JSON

\* the manager: the storage file (None when it does not exist) and self._data (None
\* when no manager is constructed)
\* _load: the dict of the file, {} when there is no file; json.load raises
\* JSONDecodeError on a file that is not JSON, and nothing catches it
load(k) ==
  IF k.file = None THEN [k EXCEPT !.data = Some(<<>>)]
  ELSE IF k.file[1].json THEN [k EXCEPT !.data = Some(k.file[1].data)]
  ELSE [k EXCEPT !.data = None, !.last.raised = "JSONDecodeError"]

\* _save: self._data written to the file
save(k) == [k EXCEPT !.file = Some([json |-> TRUE, data |-> k.data[1]])]


\* store_api_key(service, api_key), at time t
store_api_key(k, service, api_key, t) ==
  LET record == DictGet(k.data[1], service, <<>>)
      new == [service |-> service, api_key |-> api_key,
              created |-> Get(record, "created", t),
              last_used |-> Get(record, "last_used", None),
              usage_count |-> Get(record, "usage_count", 0),
              active |-> TRUE]
      updated == [f \in DOMAIN record \cup DOMAIN new |->
                    IF f \in DOMAIN new THEN new[f] ELSE record[f]]
  IN save([k EXCEPT !.data = Some(DictSet(k.data[1], service, updated))])

\* as list_stored_keys, but with the records returned as they are stored
list_stored_keys_unsanitized(k) == [i \in 1..Len(k.data[1]) |-> k.data[1][i][2]]

\* list_stored_keys: every record without its api_key field
list_stored_keys(k) ==
  LET values == [i \in 1..Len(k.data[1]) |-> k.data[1][i][2]]
  IN [i \in 1..Len(values) |->
        [f \in DOMAIN values[i] \ {"api_key"} |-> values[i][f]]]

\* check_key_health(service), at time t: not_found for a missing (or empty) record,
\* else last_used and usage_count updated and saved
check_key_health(k, service, t) ==
  LET record == DictGet(k.data[1], service, <<>>)
      used == [f \in DOMAIN record \cup {"last_used", "usage_count"} |->
                 IF f = "last_used" THEN Some(t)
                 ELSE IF f = "usage_count" THEN Get(record, "usage_count", 0) + 1
                 ELSE record[f]]
  IN IF DOMAIN record = {}
     THEN [k EXCEPT !.last.health = Some([status |-> "not_found"])]
     ELSE [save([k EXCEPT !.data = Some(DictSet(k.data[1], service, used))])
             EXCEPT !.last.health =
               Some([status |-> IF Get(used, "active", TRUE) THEN "healthy" ELSE "inactive",
                     last_used |-> used["last_used"],
                     usage_count |-> used["usage_count"]])]

\* delete_key(service)
delete_key(k, service) ==
  IF service \in DictKeys(k.data[1])
  THEN save([k EXCEPT !.data = Some(SelectSeq(k.data[1], LAMBDA item : item[1] # service))])
  ELSE k

\* the services and secrets of the calls, and the storage files a manager is
\* constructed on: none, an empty dict, one stored key, and text that is not JSON
Services == {"alpha", "beta"}
ApiKeys == {"SECRET1", "SECRET2"}
MaxUsage == 2


StorageFiles ==
  {None,
   Some([json |-> TRUE, data |-> <<>>]),
   Some([json |-> TRUE,
         data |-> <<<<"alpha", [service |-> "alpha", api_key |-> "SECRET1", created |-> 0,
                                last_used |-> None, usage_count |-> 0, active |-> TRUE]>>>>]),
   Some([json |-> FALSE, data |-> <<>>])}


\* no bot is in use while the other components run
BotIdle ==
  /\ fts_available = FALSE
  /\ disk = EmptyDb
  /\ db = EmptyDb
  /\ in_transaction = FALSE
  /\ last_insert_rowid = 0
  /\ now = 0
  /\ last = NoCall
  /\ prev_ingest = None

\* nothing constructed, nothing called yet
IdleInit == BotIdle /\ OthersIdle

KeysInit ==
  /\ BotIdle
  /\ keys \in {[KeysIdle EXCEPT !.file = f] : f \in StorageFiles}
  /\ registry = RegistryIdle
  /\ call = CallIdle
  /\ retry = RetryIdle


\* SecureAPIKeyManager(storage_path): a manager constructed over the file as it is
Construct ==
  /\ keys' = load([keys EXCEPT !.last = [NoKeyCall EXCEPT !.op = "construct"]])
  /\ UNCHANGED <<bot_vars, registry, call, retry>>

StoreApiKey(service, api_key) ==
  /\ keys.data # None
  /\ keys' = store_api_key([keys EXCEPT !.last = [NoKeyCall EXCEPT !.op = "store_api_key",
                                                                    !.service = service]],
                           service, api_key, now)
  /\ UNCHANGED <<bot_vars, registry, call, retry>>

ListStoredKeys ==
  /\ keys.data # None
  /\ keys' = [keys EXCEPT !.last = [NoKeyCall EXCEPT !.op = "list_stored_keys",
                                                      !.listed = list_stored_keys(keys)]]
  /\ UNCHANGED <<bot_vars, registry, call, retry>>

CheckKeyHealth(service) ==
  /\ keys.data # None
  /\ Get(DictGet(keys.data[1], service, <<>>), "usage_count", 0) < MaxUsage
  /\ keys' = check_key_health([keys EXCEPT !.last = [NoKeyCall EXCEPT !.op = "check_key_health",
                                                                       !.service = service]],
                              service, now)
  /\ UNCHANGED <<bot_vars, registry, call, retry>>

DeleteKey(service) ==
  /\ keys.data # None
  /\ keys' = delete_key([keys EXCEPT !.last = [NoKeyCall EXCEPT !.op = "delete_key",
                                                                 !.service = service]],
                        service)
  /\ UNCHANGED <<bot_vars, registry, call, retry>>


KeysNext ==
  \/ Construct
  \/ \E service \in Services, api_key \in ApiKeys : StoreApiKey(service, api_key)
  \/ ListStoredKeys
  \/ \E service \in Services : CheckKeyHealth(service)
  \/ \E service \in Services : DeleteKey(service)
  \/ Tick

SpecKeys == KeysInit /\ [][KeysNext]_vars

-----------------------------------------------------------------------------
(* The pure helpers applied to arguments: _norm_host to host strings and URLs made    *)
(* of a scheme, a host and a path, _hashing_embed to texts of up to MaxWords words.   *)



\* the number of words of a text given to _hashing_embed
MaxWords == 2


RECURSIVE EmbedTexts(_)
EmbedTexts(n) ==
  IF n = 0 THEN {<<>>}
  ELSE EmbedTexts(n - 1) \cup
       {t \o (IF t = <<>> THEN <<>> ELSE <<" ">>) \o w :
          t \in EmbedTexts(n - 1), w \in {T.sky, T.Sky, T.Sea, T.k, T.bang, T.s_y}}



\* _norm_host(pad + scheme + host + path + pad)
NormHost(scheme, host, path, pad) ==
  /\ call' = [CallIdle EXCEPT !.fn = "norm_host",
                !.arg = Some(pad \o scheme \o host \o path \o pad),
                !.host = host,
                !.host_key = norm_host(Some(pad \o scheme \o host \o path \o pad))]
  /\ UNCHANGED <<bot_vars, keys, registry, retry>>

\* _norm_host(None) and _norm_host("")
NormHostOfNothing(x) ==
  /\ call' = [CallIdle EXCEPT !.fn = "norm_host", !.arg = x, !.host_key = norm_host(x)]
  /\ UNCHANGED <<bot_vars, keys, registry, retry>>

\* _hashing_embed(text), called twice
HashingEmbed(text) ==
  /\ call' = [CallIdle EXCEPT !.fn = "hashing_embed", !.arg = Some(text),
                !.vector = hashing_embed(text), !.vector_again = hashing_embed(text)]
  /\ UNCHANGED <<bot_vars, keys, registry, retry>>

PureNext ==
  \/ \E scheme \in {<<>>, T.http_scheme, T.https_scheme, Upper(T.https_scheme), T.ftp},
        host \in {T.h, T.H}, path \in {<<>>, T.Slash, T.p}, pad \in {<<>>, <<" ">>} :
       NormHost(scheme, host, path, pad)
  \/ \E x \in {None, Some(<<>>)} : NormHostOfNothing(x)
  \/ \E text \in EmbedTexts(MaxWords) : HashingEmbed(text)

SpecPure == IdleInit /\ [][PureNext]_vars

-----------------------------------------------------------------------------
(* safe_request of apibotpi/call.py: one call of the wrapper, step by step. Every     *)
(* invocation of the wrapped function ends: it returns, raises a RequestException     *)
(* (ConnectionError, Timeout) or raises something else (ValueError).                  *)

\* for attempt in range(5)
Attempts == 5


Outcomes ==
  {[kind |-> "return", what |-> "response"], [kind |-> "raise", what |-> "ValueError"]}
  \cup {[kind |-> "raise", what |-> e] : e \in {"ConnectionError", "Timeout"}}

IsRequestException(outcome) ==
  outcome.kind = "raise" /\ outcome.what \in {"ConnectionError", "Timeout"}

\* as invoke, but with last_exc set by the first RequestException only
invoke_keeping_first_exception(r, outcome) ==
  LET r1 == [r EXCEPT !.trace = Append(@, outcome)]
  IN IF outcome.kind = "return"
     THEN [r1 EXCEPT !.pc = "returned", !.result = Some(outcome.what)]
     ELSE IF IsRequestException(outcome)
     THEN [r1 EXCEPT !.pc = "sleep",
                     !.last_exc = IF r.last_exc = None THEN Some(outcome.what) ELSE @]
     ELSE [r1 EXCEPT !.pc = "raised", !.raised = outcome.what]

\* the try statement of one iteration: fn invoked, with this outcome. Its value is
\* returned; a RequestException is kept in last_exc; any other exception propagates
invoke(r, outcome) ==
  LET r1 == [r EXCEPT !.trace = Append(@, outcome)]
  IN IF outcome.kind = "return"
     THEN [r1 EXCEPT !.pc = "returned", !.result = Some(outcome.what)]
     ELSE IF IsRequestException(outcome)
     THEN [r1 EXCEPT !.pc = "sleep", !.last_exc = Some(outcome.what)]
     ELSE [r1 EXCEPT !.pc = "raised", !.raised = outcome.what]

\* time.sleep(min(2 ** attempt + random.random(), 30)), then the next iteration, or
\* the end of the loop after the last one
backoff(r) ==
  [r EXCEPT !.attempt = @ + 1,
            !.pc = IF r.attempt + 1 < Attempts THEN "try" ELSE "after_loop"]

\* if last_exc: raise last_exc (else the wrapper returns None)
after_loop(r) ==
  IF r.last_exc # None THEN [r EXCEPT !.pc = "raised", !.raised = r.last_exc[1]]
  ELSE [r EXCEPT !.pc = "returned", !.result = None]



Running == retry.pc \in {"try", "sleep", "after_loop"}

\* wrapper(*a, **k): timeout popped, last_exc = None, the loop entered
CallWrapper ==
  /\ ~Running
  /\ retry' = [RetryIdle EXCEPT !.pc = "try"]
  /\ UNCHANGED <<bot_vars, keys, registry, call>>

Invoke(outcome) ==
  /\ retry.pc = "try"
  /\ retry' = invoke(retry, outcome)
  /\ UNCHANGED <<bot_vars, keys, registry, call>>

Backoff ==
  /\ retry.pc = "sleep"
  /\ retry' = backoff(retry)
  /\ UNCHANGED <<bot_vars, keys, registry, call>>

AfterLoop ==
  /\ retry.pc = "after_loop"
  /\ retry' = after_loop(retry)
  /\ UNCHANGED <<bot_vars, keys, registry, call>>

WrapperStep == (\E outcome \in Outcomes : Invoke(outcome)) \/ Backoff \/ AfterLoop

RetryNext ==
  \/ CallWrapper
  \/ \E outcome \in Outcomes : Invoke(outcome)
  \/ Backoff
  \/ AfterLoop

\* a call that has started keeps running: the wrapped function ends, the sleep ends
SpecRetry == IdleInit /\ [][RetryNext]_vars /\ WF_vars(WrapperStep)

-----------------------------------------------------------------------------
(* The registry of apibotpi: apis.json, a JSON list of entries (dicts, here functions *)
(* of their field names with texts as values), written by upsert_api of               *)
(* install_api.py and read by the call command of call.py.                            *)

REQUIRED == {"name", "host"}

\* validate_record: the required fields that are missing or empty
validate_record(rec) == {f \in REQUIRED : Get(rec, f, <<>>) = <<>>}

\* as SameApi, but with the letters compared as they are
SameApiCaseSensitive(api, record) ==
  /\ Strip(Get(api, "name", <<>>)) = Strip(record["name"])
  /\ Get(api, "host", <<>>) = record["host"]

\* the test of the loop of upsert_api: names equal once stripped and lowercased, hosts
\* equal once lowercased
SameApi(api, record) ==
  /\ Lower(Strip(Get(api, "name", <<>>))) = Lower(Strip(record["name"]))
  /\ Lower(Get(api, "host", <<>>)) = Lower(record["host"])

\* api.update(record)
DictUpdate(api, record) ==
  [f \in DOMAIN api \cup DOMAIN record |-> IF f \in DOMAIN record THEN record[f] ELSE api[f]]

\* upsert_api(record) of install_api.py on the registry g: ValueError for a record that
\* fails validate_record; else the file read, the first entry that is the same API
\* updated (or the record appended), the file replaced, and the index returned
\* (indices count from 0)
registry_upsert_api(g, record) ==
  LET data == g.file
      found == {i \in 1..Len(data) : SameApi(data[i], record)}
      idx == CHOOSE i \in found : \A j \in found : i <= j
      call_ == [g.last EXCEPT !.op = "install", !.record = Some(record)]
  IN IF validate_record(record) # {}
     THEN [g EXCEPT !.last = [call_ EXCEPT !.raised = "ValueError"]]
     ELSE IF found # {}
     THEN [file |-> [data EXCEPT ![idx] = DictUpdate(data[idx], record)],
           last |-> [call_ EXCEPT !.opened = TRUE, !.idx = Some(idx - 1)]]
     ELSE [file |-> Append(data, record),
           last |-> [call_ EXCEPT !.opened = TRUE, !.idx = Some(Len(data))]]


\* urlparse(url).scheme: the text before the first ":" of the url without its leading
\* whitespace, lowercased, when it is a letter followed by letters, digits, "+", "-"
\* and "."; else ""
UrlScheme(url) ==
  LET s == LStrip(url)
      colons == {i \in 1..Len(s) : s[i] = ":"}
      first == CHOOSE i \in colons : \A j \in colons : i <= j
      prefix == SubSeq(s, 1, first - 1)
  IN IF colons = {} THEN <<>>
     ELSE IF /\ prefix # <<>>
             /\ IsLower(prefix[1]) \/ IsUpper(prefix[1])
             /\ \A i \in 1..Len(prefix) :
                  IsLower(prefix[i]) \/ IsUpper(prefix[i]) \/ prefix[i] \in {"+", "-", "."} \cup Digits
     THEN Lower(prefix)
     ELSE <<>>

\* as SecureUrl, but any url that starts with http passes
SecureUrlByPrefix(url) == StartsWith(Lower(url), T.http)

\* urlparse(url).scheme == "https"
SecureUrl(url) == UrlScheme(url) = T.https

\* the first entry of the registry with this name, letter case apart (0 when none)
FirstNamed(data, name) ==
  LET found == {i \in 1..Len(data) : Lower(data[i]["name"]) = Lower(name)}
  IN IF found = {} THEN 0 ELSE CHOOSE i \in found : \A j \in found : i <= j

\* api.get("url") or api.get("base_url"): "" when neither is set
UrlOf(api) == IF Get(api, "url", <<>>) # <<>> THEN api["url"] ELSE Get(api, "base_url", <<>>)

\* main of call.py for this name: the entry looked up, the refusals, else _get(url):
\* requests.get invoked once more after each of `failures` {"ConnectionError", "Timeout"}, up to
\* Attempts times; the response printed, or exit status 2 when every attempt failed or
\* raise_for_status raised for the response
call_main(g, name, failures, http_error) ==
  LET i == FirstNamed(g.file, name)
      url == UrlOf(g.file[i])
      call_ == [g.last EXCEPT !.op = "call", !.name = name]
  IN IF i = 0 THEN [g EXCEPT !.last = [call_ EXCEPT !.printed = "API not found."]]
     ELSE IF url = <<>>
     THEN [g EXCEPT !.last = [call_ EXCEPT !.printed = "No URL configured."]]
     ELSE IF ~SecureUrl(url)
     THEN [g EXCEPT !.last =
             [call_ EXCEPT !.printed = "Refusing insecure HTTP URL. Use HTTPS."]]
     ELSE IF failures < Attempts /\ ~http_error
     THEN [g EXCEPT !.last = [call_ EXCEPT !.printed = "response",
                                !.requested = [n \in 1..(failures + 1) |-> url]]]
     ELSE IF failures < Attempts
     THEN [g EXCEPT !.last = [call_ EXCEPT !.printed = "Request failed", !.exit = 2,
                                !.requested = [n \in 1..(failures + 1) |-> url]]]
     ELSE [g EXCEPT !.last = [call_ EXCEPT !.printed = "Request failed", !.exit = 2,
                                !.requested = [n \in 1..Attempts |-> url]]]

\* records given to upsert_api, and names given to the call command


RegistryRecords ==
  {[name |-> n, host |-> h, base_url |-> u] :
     n \in {T.A, T.lower_a, T.pad_a, T.b}, h \in {T.h, T.H}, u \in {T.url, T.http_url, T.HTTPS_url}}
  \cup {[name |-> <<>>, host |-> T.h, base_url |-> T.url],
        [name |-> T.A, host |-> <<>>, base_url |-> <<>>],
        [host |-> T.h, base_url |-> T.url],
        [name |-> T.b]}


\* the registry files the commands start from: an empty list, and a list of an entry
\* with a plain-http url and an entry with no url
RegistryFiles ==
  {<<>>,
   <<[name |-> T.b, host |-> T.h, url |-> T.http_url],
     [name |-> T.c, host |-> T.h]>>}

RegistryInit ==
  /\ BotIdle
  /\ keys = KeysIdle
  /\ registry \in {[RegistryIdle EXCEPT !.file = f] : f \in RegistryFiles}
  /\ call = CallIdle
  /\ retry = RetryIdle


\* install: upsert_api(record)
Install(record) ==
  /\ registry' = registry_upsert_api([registry EXCEPT !.last = NoRegistryCall], record)
  /\ UNCHANGED <<bot_vars, keys, call, retry>>

\* call: main of call.py with this name
CallApi(name) ==
  /\ \E failures \in 0..Attempts, http_error \in BOOLEAN :
       registry' = call_main([registry EXCEPT !.last = NoRegistryCall], name, failures,
                             http_error)
  /\ UNCHANGED <<bot_vars, keys, call, retry>>

RegistryNext ==
  \/ \E record \in RegistryRecords : Install(record)
  \/ \E name \in {T.lower_a, T.B, T.c} : CallApi(name)

SpecRegistry == RegistryInit /\ [][RegistryNext]_vars

-----------------------------------------------------------------------------
(* Properties.                                                                        *)

\* the (name, normalized host) that identifies the record of a payload
KeyOf(api) == LET p == UpsertParams(api, 0) IN <<p[1][1], p[2][1]>>

\* the committed records with the identity of this payload
Stored(api) == ApiRows(disk, KeyOf(api)[1], KeyOf(api)[2])

\* the optional fields of a record, under the names the payload and the table share
OptionalFields == {"base_url", "description", "category", "docs_url", "openapi_url",
                   "auth", "rate_limit", "status", "source"}

\* the most recent call was an ingest, and the ingest call before it carried the same
\* (name, normalized host)
Reingested ==
  /\ last.op = "ingest"
  /\ prev_ingest # None
  /\ KeyOf(prev_ingest[1]) = KeyOf(last.api[1])

C2_OneRecordPerIdentity ==
  /\ \A r1, r2 \in disk.apis : (r1.name = r2.name /\ r1.host = r2.host) => r1 = r2
  /\ last.op = "ingest" => Cardinality(Stored(last.api[1])) = 1
  /\ (last.op = "ingest" /\ prev_ingest # None /\ KeyOf(prev_ingest[1]) # KeyOf(last.api[1]))
       => /\ Cardinality(Stored(prev_ingest[1])) = 1
          /\ Stored(prev_ingest[1]) # Stored(last.api[1])
  /\ (Reingested /\ prev_ingest[1].description # last.api[1].description)
       => \A r \in Stored(last.api[1]) :
            /\ Truthy(last.api[1].description) => r.description = last.api[1].description
            /\ (~Truthy(last.api[1].description) /\ Truthy(prev_ingest[1].description))
                 => r.description = prev_ingest[1].description

C4_IngestReturnsRecordId ==
  last.op = "ingest" =>
    /\ last.api_id # None
    /\ \E r \in Stored(last.api[1]) : r.id = last.api_id[1]

C6_FailedIngestWritesNothing ==
  [][(last'.op = "ingest" /\ last'.raised # "") => (disk' = disk /\ db' = disk')]_vars

\* an ingest has raised and has left its transaction open on a store that holds
\* committed log entries
C6_Witness ==
  /\ last.op = "ingest"
  /\ last.raised # ""
  /\ in_transaction
  /\ disk.search_log # <<>>

\* C7: every endpoint row belongs to an existing record, and after an ingest each
\* endpoint of the payload is a row of the payload's record and of no other record.
C7_EndpointsBelongToTheirRecord ==
  /\ \A e \in disk.endpoints : \E r \in disk.apis : r.id = e.api_id
  /\ last.op = "ingest" =>
       \A i \in 1..Len(last.api[1].endpoints) :
         LET ep == EndpointParams(0, last.api[1].endpoints[i])
         IN \E r \in Stored(last.api[1]) : \E e \in disk.endpoints :
              e.api_id = r.id /\ e.method = ep.method /\ e.path = ep.path

\* C8: a search with a non-empty query appends exactly one entry, the current time and
\* the query, to the committed search log, whatever the lookups return or raise.
C8_SearchAppendsOneLogEntry ==
  [][(last'.op \in {"search", "api_search"} /\ last'.query # None /\ last'.query[1] # <<>>)
       => disk'.search_log = Append(disk.search_log, [ts |-> now, query |-> last'.query[1]])]_vars

\* a search for a word that matches nothing has been logged behind an earlier entry
C8_Witness ==
  /\ last.op = "search"
  /\ last.query = Some(T.sky)
  /\ last.raised = ""
  /\ last.hits = NoHits
  /\ Len(disk.search_log) = 2
  /\ disk.search_log[2].query = T.sky

\* C9: a search changes no record, endpoint or embedding, neither in the committed
\* database nor in the connection's view.
C9_SearchLeavesCatalogAlone ==
  [][last'.op \in {"search", "api_search"}
       => /\ disk'.apis = disk.apis /\ disk'.endpoints = disk.endpoints
          /\ disk'.embeddings = disk.embeddings
          /\ db'.apis = db.apis /\ db'.endpoints = db.endpoints
          /\ db'.embeddings = db.embeddings]_vars

\* a search has run, and committed, on a connection on which an ingest was called before
C9_Witness ==
  /\ last.op = "search"
  /\ last.query = Some(T.sky)
  /\ prev_ingest # None
  /\ disk.search_log # <<>>
  /\ disk = db

\* a text is empty or made of whitespace only
IsBlank(q) == \A i \in 1..Len(q) : q[i] \in Whitespace

\* C10: POST /api/search with a missing, empty or whitespace-only query answers 400 and
\* leaves the search log as it was; any other request is answered by the search engine,
\* which logs the stripped query.
C10_BlankQueryRejected ==
  [][last'.op = "api_search" =>
       IF last'.body = None \/ IsBlank(last'.body[1])
       THEN /\ last'.status = 400
            /\ disk'.search_log = disk.search_log
            /\ db'.search_log = db.search_log
       ELSE /\ last'.status # 400
            /\ Len(disk'.search_log) = Len(disk.search_log) + 1
            /\ ~IsBlank(disk'.search_log[Len(disk'.search_log)].query)]_vars

\* a whitespace-only query has been answered 400 on a store whose log is not empty
C10_Witness ==
  /\ last.op = "api_search"
  /\ last.body = Some(T.blank)
  /\ last.status = 400
  /\ disk.search_log # <<>>

\* C11: an ingest whose payload lacks name or host raises a validation error and stores
\* no record for it.
C11_MissingIdentityRejected ==
  (last.op = "ingest" /\ (last.api[1].name = None \/ last.api[1].host = None))
    => /\ last.raised = "ValidationError"
       /\ Stored(last.api[1]) = {}

\* C12: get_stats().recent_searches holds the queries of the min(RecentLimit, n) most
\* recent of the n logged searches, most recent first; right after search(q) its first
\* element is q.
C12_RecentSearchesNewestFirst ==
  [][last'.op = "get_stats" =>
       LET log == disk'.search_log
           n == Len(log)
           r == last'.stats.recent_searches
       IN /\ Len(r) = (IF n < RecentLimit THEN n ELSE RecentLimit)
          /\ \A i \in 1..Len(r) : r[i] = log[n + 1 - i].query
          /\ last.op = "search" => r[1] = last.query[1]]_vars

\* statistics read on a log longer than RecentLimit whose oldest and newest queries differ
C12_Witness ==
  /\ last.op = "get_stats"
  /\ Len(disk.search_log) > RecentLimit
  /\ Len(last.stats.recent_searches) = RecentLimit
  /\ disk.search_log[1].query # disk.search_log[Len(disk.search_log)].query

\* C13: get_stats().searches_last_week is the number of log entries whose timestamp is
\* within the Week before the call.
C13_SearchesLastWeekInWindow ==
  last.op = "get_stats" =>
    last.stats.searches_last_week =
      Cardinality({i \in 1..Len(disk.search_log) : disk.search_log[i].ts >= now - Week})

\* the ids of a list of search hits
HitIds(h) == [i \in 1..Len(h) |-> h[i].id]

\* the committed embedding of record id, scored against the embedding qv of a query
ScoreOf(qv, id) ==
  LET v == (CHOOSE e \in disk.embeddings : e.api_id = id).vector
  IN [id |-> id, dot |-> Dot(qv, v), norm2 |-> v.norm2]

\* record a ranks before record b: a higher score, or the same score and stored earlier
RanksBefore(qv, a, b) ==
  \/ ScoreGt(ScoreOf(qv, a), ScoreOf(qv, b))
  \/ ScoreGeq(ScoreOf(qv, a), ScoreOf(qv, b)) /\ a < b

\* the records whose score against qv is at or above the threshold
AtOrAbove(qv) ==
  {id \in {r.id : r \in disk.apis} \cap {e.api_id : e \in disk.embeddings} :
     LET x == ScoreOf(qv, id)
     IN x.dot * x.dot * ThresholdDen * ThresholdDen
          >= ThresholdNum * ThresholdNum * qv.norm2 * x.norm2}

\* C14: the semantic bucket of a search holds only records scoring at or above the
\* threshold, at most SearchLimit of them, ordered by descending score with equal scores
\* in storage order, and every qualifying record left out ranks after all those kept.
C14_SemanticBucketTopScored ==
  (last.op = "search" /\ last.raised = "") =>
    LET qv == hashing_embed(last.query[1])
        h == last.hits.semantic
        above == AtOrAbove(qv)
        kept == {h[i].id : i \in 1..Len(h)}
    IN /\ Len(h) = (IF Cardinality(above) < SearchLimit THEN Cardinality(above)
                                                          ELSE SearchLimit)
       /\ \A i \in 1..Len(h) : h[i].id \in above /\ h[i] = row_to_api(ApiById(disk, h[i].id))
       /\ \A i, j \in 1..Len(h) : i < j => RanksBefore(qv, h[i].id, h[j].id)
       /\ \A id \in above \ kept : \A i \in 1..Len(h) : RanksBefore(qv, h[i].id, id)

\* a search for "sky" on the stored catalog: a full bucket that is not in storage order
\* and that leaves a qualifying record out
C14_Witness ==
  /\ last.op = "search"
  /\ last.query = Some(T.sky)
  /\ Len(last.hits.semantic) = SearchLimit
  /\ \E i, j \in 1..SearchLimit :
       i < j /\ last.hits.semantic[i].id > last.hits.semantic[j].id
  /\ \E id \in AtOrAbove(hashing_embed(T.sky)) :
       \A i \in 1..SearchLimit : last.hits.semantic[i].id # id

\* an optional text holds the query as a substring, case aside
HasSubstring(x, query) == x # None /\ Contains(Lower(x[1]), Lower(query))

C16_RecordInBothBuckets ==
  (/\ last.op = "search" /\ last.raised = "" /\ last.query[1] # <<>>
   /\ prev_ingest # None
   /\ HasSubstring(prev_ingest[1].description, last.query[1]))
    => /\ \E i \in 1..Len(last.hits.text) :
            <<last.hits.text[i].name, last.hits.text[i].host>> = KeyOf(prev_ingest[1])
       /\ \E j \in 1..Len(last.hits.semantic) :
            <<last.hits.semantic[j].name, last.hits.semantic[j].host>> = KeyOf(prev_ingest[1])

\* the endpoints an export lists for a record, as a set
EndpointSet(eps) == {eps[j] : j \in 1..Len(eps)}

C19_EmptyFieldPreserved ==
  /\ last.op = "ingest" => \E r \in Stored(last.api[1]) : r.updated_at = Some(now)
  /\ Reingested =>
       \E r \in Stored(last.api[1]) :
         \A f \in OptionalFields :
           (Truthy(prev_ingest[1][f]) /\ last.api[1][f] = Some(<<>>))
             => r[f] = prev_ingest[1][f]

\* the sum of the counts of a set of <<key, count>> pairs
RECURSIVE SumCounts(_)
SumCounts(S) == IF S = {} THEN 0
                ELSE LET x == CHOOSE y \in S : TRUE IN x[2] + SumCounts(S \ {x})

\* C20: by_category counts every record once, so that its counts sum to total_apis, and
\* after an ingest it counts the ingested record under its category ("uncategorized"
\* when the payload sets none).
C20_ByCategoryCountsRecords ==
  last.op = "get_stats" =>
    /\ SumCounts(last.stats.by_category) = last.stats.total_apis
    /\ prev_ingest # None =>
         \E kc \in last.stats.by_category :
           /\ kc[1] = Coalesce(prev_ingest[1].category, Some(T.uncategorized))[1]
           /\ kc[2] >= 1

\* the four tables a caller of the store reads
Tables(d) == <<d.apis, d.endpoints, d.embeddings, d.search_log>>

\* C23: setup_database called on an initialised store leaves the records, the
\* endpoints, the embeddings and the search log as they were, in the file and in the
\* connection's view of it, however often it is called
C23_SetupDatabaseIdempotent ==
  [][last'.op = "setup_database" =>
       /\ Tables(db') = Tables(db)
       /\ Tables(disk') = Tables(disk)]_vars

\* setup_database has just run on a store that holds records and a logged search
C23_Witness ==
  /\ last.op = "setup_database"
  /\ disk.apis # {} /\ disk.endpoints # {} /\ disk.embeddings # {}
  /\ Len(disk.search_log) > 0

IsPrefix(p, q) == Len(p) <= Len(q) /\ \A i \in 1..Len(p) : q[i] = p[i]

\* C26: the search log is append-only: every call keeps the entries logged so far,
\* unchanged and in their order, and only a search adds an entry
C26_SearchLogAppendOnly ==
  [][/\ IsPrefix(db.search_log, db'.search_log)
     /\ IsPrefix(disk.search_log, disk'.search_log)
     /\ db'.search_log # db.search_log => last'.op \in {"search", "api_search"}]_vars

\* a call other than a search has just run on a store whose log holds two entries
C26_Witness ==
  /\ Len(disk.search_log) = 2
  /\ last.op \in {"ingest", "get_stats", "dump_json", "setup_database"}

\* C21: a manager constructed over a storage file that is not valid JSON is constructed
\* without an exception and holds no key
C21_CorruptFileTolerated ==
  [][(keys.file # None /\ ~keys.file[1].json /\ keys'.last.op = "construct") =>
       /\ keys'.last.raised = ""
       /\ keys'.data = Some(<<>>)]_vars

\* C22: whatever store_api_key, check_key_health and delete_key calls came before, the
\* list returned by list_stored_keys holds no api_key field, and holds one entry for
\* each service stored at that moment and no other entry
C22_ListHidesSecrets ==
  keys.last.op = "list_stored_keys" =>
    LET listed == keys.last.listed
        stored == DictKeys(keys.data[1])
    IN /\ \A i \in 1..Len(listed) : "api_key" \notin DOMAIN listed[i]
       /\ Len(listed) = Cardinality(stored)
       /\ \A service \in stored :
            Cardinality({i \in 1..Len(listed) : listed[i]["service"] = service}) = 1

\* a list of two services has been returned, one of them checked before
C22_Witness ==
  /\ keys.last.op = "list_stored_keys"
  /\ Len(keys.last.listed) = 2
  /\ \E i \in 1..2 : keys.last.listed[i]["usage_count"] > 0

\* C24: _norm_host of a host string or URL is the host in lower case, whatever the
\* scheme, the path and the letter case of the input, and None for an empty input
C24_HostKeyIsLowercaseHost ==
  call.fn = "norm_host" =>
    IF ~Truthy(call.arg) THEN call.host_key = None
    ELSE call.host_key = Some(Lower(call.host))

\* the text holds a letter or a digit
HasAlnum(text) ==
  \E i \in 1..Len(text) : IsLower(text[i]) \/ IsUpper(text[i]) \/ text[i] \in Digits

C27_EndpointsOfRecordInOrder ==
  last.op = "get_api_endpoints" =>
    LET eps == last.endpoints
        owned == {e \in disk.endpoints : e.api_id = last.api_id[1]}
    IN /\ last.raised = ""
       /\ Len(eps) = Cardinality(owned)
       /\ {eps[i] : i \in 1..Len(eps)} = {EndpointDict(e) : e \in owned}
       /\ \A i, j \in 1..Len(eps) : i < j => EndpointBefore(eps[i], eps[j])
       /\ (\A r \in disk.apis : r.id # last.api_id[1]) => eps = <<>>

\* the four endpoints of a record have been returned
C27_Witness ==
  /\ last.op = "get_api_endpoints"
  /\ Len(last.endpoints) = 4

\* the invocations before the last one all raised a RequestException
EarlierAllRequestExceptions ==
  \A i \in 1..(Len(retry.trace) - 1) : IsRequestException(retry.trace[i])

\* C28: one call of a safe_request wrapper invokes the function at most 5 times; it
\* returns the value of the first invocation that returns, and invokes the function no
\* more after an invocation that did not raise a RequestException; when 5 invocations
\* raised a RequestException it raises the last one's; and every call ends
C28_AtMostFiveAttempts ==
  /\ [](/\ Len(retry.trace) <= 5
        /\ EarlierAllRequestExceptions
        /\ retry.pc = "returned" =>
             LET final == retry.trace[Len(retry.trace)]
             IN final.kind = "return" /\ retry.result = Some(final.what)
        /\ retry.pc = "raised" =>
             LET final == retry.trace[Len(retry.trace)]
             IN /\ final.kind = "raise" /\ retry.raised = final.what
                /\ IsRequestException(final) => Len(retry.trace) = 5
        /\ (Len(retry.trace) = 5 /\ IsRequestException(retry.trace[5]))
             => retry.pc \in {"sleep", "after_loop", "raised"})
  /\ (Running ~> ~Running)

\* five invocations raised, the first and the last different exceptions, and the
\* wrapper has raised
C28_Witness ==
  /\ retry.pc = "raised"
  /\ Len(retry.trace) = 5
  /\ retry.trace[1].what # retry.trace[5].what

\* the entries of a registry that are the API of this record: same name and host,
\* letter case (and blanks around the name) apart
EntriesOf(data, record) ==
  {i \in 1..Len(data) :
     /\ Lower(Strip(Get(data[i], "name", <<>>))) = Lower(Strip(record["name"]))
     /\ Lower(Get(data[i], "host", <<>>)) = Lower(record["host"])}

\* C29: upsert_api of the installer raises ValueError for a record without a non-empty
\* name or host, with the registry file not opened and left as it was; else it updates
\* the first entry of the same (name, host) in place, or appends the record when there
\* is none, and returns that entry's index; an install repeated adds no entry
C29_InstallerUpsert ==
  [][registry'.last.op = "install" =>
       LET record == registry'.last.record[1]
           before == registry.file
           after == registry'.file
           done == registry'.last
           invalid == \E f \in {"name", "host"} :
                        f \notin DOMAIN record \/ record[f] = <<>>
       IN IF invalid
          THEN done.raised = "ValueError" /\ ~done.opened /\ after = before
          ELSE /\ done.raised = ""
               /\ done.idx # None
               /\ done.idx[1] + 1 \in EntriesOf(after, record)
               /\ \A f \in DOMAIN record : after[done.idx[1] + 1][f] = record[f]
               /\ IF EntriesOf(before, record) # {}
                  THEN /\ Len(after) = Len(before)
                       /\ done.idx[1] + 1 \in EntriesOf(before, record)
                       /\ \A i \in 1..Len(before) : i # done.idx[1] + 1 => after[i] = before[i]
                       /\ \A f \in DOMAIN before[done.idx[1] + 1] \ DOMAIN record :
                            after[done.idx[1] + 1][f] = before[done.idx[1] + 1][f]
                  ELSE after = Append(before, record) /\ done.idx[1] + 1 = Len(after)
               /\ Cardinality(EntriesOf(after, record)) =
                    IF EntriesOf(before, record) = {} THEN 1
                    ELSE Cardinality(EntriesOf(before, record))]_vars

\* a record has been installed over the first entry of a registry of three, which
\* held the same API with its host in another letter case, and keeps its url field
C29_Witness ==
  /\ registry.last.op = "install"
  /\ registry.last.raised = ""
  /\ registry.last.idx = Some(0)
  /\ Len(registry.file) = 3
  /\ "url" \in DOMAIN registry.file[1]
  /\ registry.file[1]["host"] = T.H

\* C30: the call command passes no url to the request function unless its scheme is
\* https: for an entry whose url (or, without one, base_url) is missing or of another
\* scheme it prints a refusal and makes no request
C30_CallOnlyHttps ==
  registry.last.op = "call" =>
    LET done == registry.last
        named == {i \in 1..Len(registry.file) :
                    Lower(registry.file[i]["name"]) = Lower(done.name)}
        api == registry.file[CHOOSE i \in named : \A j \in named : i <= j]
        url == IF "url" \in DOMAIN api /\ api["url"] # <<>> THEN api["url"]
               ELSE IF "base_url" \in DOMAIN api THEN api["base_url"] ELSE <<>>
    IN /\ \A n \in 1..Len(done.requested) :
            StartsWith(Lower(LStrip(done.requested[n])), T.https \o <<":">>)
       /\ (named # {} /\ ~StartsWith(Lower(LStrip(url)), T.https \o <<":">>)) =>
            /\ done.requested = <<>>
            /\ done.printed \in {"No URL configured.",
                                  "Refusing insecure HTTP URL. Use HTTPS."}

\* the command has refused an entry whose url is plain http although its base_url,
\* installed later, is https
C30_Witness ==
  /\ registry.last.op = "call"
  /\ registry.last.printed = "Refusing insecure HTTP URL. Use HTTPS."
  /\ \E i \in 1..Len(registry.file) :
       /\ Lower(registry.file[i]["name"]) = Lower(registry.last.name)
       /\ "url" \in DOMAIN registry.file[i] /\ "base_url" \in DOMAIN registry.file[i]
       /\ registry.file[i]["base_url"] = T.url

====
